---- MODULE Spec2Model ----
(***************************************************************************)
(* Model of scripts/verify-core-flows.py: the runner run_verification, the *)
(* eight flow functions it calls in sequence, the module-level results     *)
(* registry and the summary it writes.                                     *)
(*                                                                         *)
(* The browser and the application under test are the environment: every   *)
(* Playwright call either completes or raises, and every read of the page  *)
(* (content, visibility) returns a value the environment chooses.          *)
(***************************************************************************)
EXTENDS Integers, Sequences, FiniteSets, TLC

VARIABLES
    pc,          \* position of run_verification
    results,     \* the module-level dict results, in insertion order
    exc,         \* the exception propagating out of the last step, or NoExc
    browser,     \* "none", "open" or "closed"
    page,        \* TRUE once context.new_page() has returned
    closes,      \* number of browser.close() calls executed
    fatalShots,  \* number of screenshot(page, "fatal_error") calls attempted
    invoked,     \* names of the flows invoked so far, in call order
    last,        \* what the most recent step observed and did (history)
    summary,     \* the document written to summary.json, or NoSummary
    writes,      \* number of times summary.json was written
    exitCode,    \* process exit status, NotExited while running
    console_errors, \* the list console_errors of run_verification
    emitted,     \* the console messages the page has emitted (history)
    run,         \* number of the current invocation of run_verification
    fresh,       \* names recorded during the current invocation (history)
    e2e          \* the state of run_tests of e2e-test.py

vars == <<pc, results, exc, browser, page, closes, fatalShots, invoked, last,
          summary, writes, exitCode, console_errors, emitted, run, fresh,
          e2e>>

-----------------------------------------------------------------------------
(* Values *)

NoExc == "none"

\* Messages an exception raised by a Playwright call may carry. No code path
\* inspects the message: it is only copied into a detail or printed.
ExcMsgs == {"Timeout 15000ms exceeded."}

\* Outcome of a call that may raise: NoExc when it returns.
CallOutcomes == {NoExc} \cup ExcMsgs

NoSummary == [written |-> FALSE]

NotExited == -1

\* The flows in the order run_verification calls them.
FlowNames == <<"demo_login", "dashboard_loads", "customer_detail",
               "operations_hub", "admin_panel", "agent_center",
               "knowledge_base", "chat_send">>

-----------------------------------------------------------------------------
(* results: a dict kept as a sequence of entries in insertion order *)

Names(res) == {res[i].name : i \in 1..Len(res)}

IndexOf(res, name) == CHOOSE i \in 1..Len(res) : res[i].name = name

Get(res, name) == res[IndexOf(res, name)]

\* results[name] = {"passed": passed, "detail": detail}
record(res, name, passed, detail) ==
    LET e == [name |-> name, passed |-> passed, detail |-> detail]
    IN  IF name \in Names(res)
        THEN [res EXCEPT ![IndexOf(res, name)] = e]
        ELSE Append(res, e)

-----------------------------------------------------------------------------
(* Helpers *)

\* Result of a call that raises on failure: what safe_click's locator does.
\*   "clicked"       wait_for and click both returned
\*   "not_visible"   wait_for timed out: the control is absent
\*   "click_failed"  the control became visible and click raised
ClickOutcomes == {"clicked", "not_visible", "click_failed"}

\* safe_click: True if clicked, False on any exception (never raises).
safe_click(o) == o = "clicked"

\* any(kw in content for kw in kws): content is the set of words on the page.
any_in(kws, content) == \E kw \in kws : kw \in content

\* What a flow's run leaves in the history variable.
NoFlow == "none"

H0(flow) ==
    [flow |-> flow, ctl |-> "n/a", kw |-> FALSE, raised |-> NoExc,
     hraised |-> FALSE, attempted |-> <<>>, tabsClicked |-> 0, tabsFound |-> 0,
     html |-> <<>>]

\* The ways the body of a flow's try block can go: no call raises
\* (failAt = 0), or the failAt-th call raises msg and the screenshot of the
\* except handler returns (hshot = NoExc) or raises hshot.
Faults(steps) ==
    {[failAt |-> 0, msg |-> NoExc, hshot |-> NoExc]}
    \cup [failAt : 1..Len(steps), msg : ExcMsgs, hshot : CallOutcomes]

\* What page.content() returns to a flow, as the set of the flow's words that
\* occur in it; a flow that does not get to the call reads nothing.
Content(words, read) == IF read THEN SUBSET words ELSE {{}}

\* except Exception as exc: screenshot(page, "<nn>_error");
\*                          record(name, False, str(exc))
\* The screenshot comes first: when it raises, nothing is recorded and its
\* exception leaves the flow.
except_handler(res, name, msg, hshot) ==
    IF hshot = NoExc
    THEN [results |-> record(res, name, FALSE, msg), esc |-> NoExc]
    ELSE [results |-> res, esc |-> hshot]

\* try: <steps>; record(name, passed, detail)  except Exception: <handler>
\* h is the history of a run in which no step raises.
try_flow(res, name, passed, detail, f, h) ==
    IF f.failAt = 0
    THEN [results |-> record(res, name, passed, detail), esc |-> NoExc,
          hist |-> h]
    ELSE LET x == except_handler(res, name, f.msg, f.hshot)
         IN  [results |-> x.results, esc |-> x.esc,
              hist |-> [H0(name) EXCEPT !.ctl = h.ctl, !.raised = f.msg,
                                        !.hraised = (x.esc # NoExc)]]

-----------------------------------------------------------------------------
(* Flow 1: demo login *)

DemoLoginWords == {"dashboard", "cscx", "customer"}

\* "dashboard" in content or "cscx" in content and "customer" in content
demo_bypass(content) ==
    "dashboard" \in content \/ ("cscx" \in content /\ "customer" \in content)

\* The calls of the try block that can raise, in order.
demo_login_steps(content) ==
    <<"goto", "screenshot:01_initial_load", "content">>
    \o (IF demo_bypass(content)
        THEN <<"screenshot:01_already_logged_in">>
        ELSE <<"wait_for", "click", "wait_for_load_state", "wait_for_timeout",
               "screenshot:01_after_demo_login">>)

flow_demo_login(res, content, f) ==
    try_flow(res, "demo_login", TRUE,
             IF demo_bypass(content)
             THEN "Bypassed login (Supabase not configured or already in demo)"
             ELSE "",
             f, [H0("demo_login") EXCEPT !.kw = demo_bypass(content)])

-----------------------------------------------------------------------------
(* Flow 2: dashboard loads *)

\* The flow's page content is a string: the sequence of its characters.
Uppers ==
    <<"A", "B", "C", "D", "E", "F", "G", "H", "I", "J", "K", "L", "M",
      "N", "O", "P", "Q", "R", "S", "T", "U", "V", "W", "X", "Y", "Z">>

Lowers ==
    <<"a", "b", "c", "d", "e", "f", "g", "h", "i", "j", "k", "l", "m",
      "n", "o", "p", "q", "r", "s", "t", "u", "v", "w", "x", "y", "z">>

\* str.lower(): every upper-case letter becomes its lower-case letter, any
\* other character stays.
lower(s) ==
    [i \in 1..Len(s) |->
        IF \E k \in DOMAIN Uppers : Uppers[k] = s[i]
        THEN Lowers[CHOOSE k \in DOMAIN Uppers : Uppers[k] = s[i]]
        ELSE s[i]]

\* kw in s, for strings: kw occurs in s at some position.
in_str(kw, s) ==
    \E i \in 0..(Len(s) - Len(kw)) : \A j \in 1..Len(kw) : s[i + j] = kw[j]

\* "customer", "health", "portfolio", "arr", "revenue", "score"
DashboardWords ==
    {<<"c", "u", "s", "t", "o", "m", "e", "r">>,
     <<"h", "e", "a", "l", "t", "h">>,
     <<"p", "o", "r", "t", "f", "o", "l", "i", "o">>,
     <<"a", "r", "r">>,
     <<"r", "e", "v", "e", "n", "u", "e">>,
     <<"s", "c", "o", "r", "e">>}

\* What page.content() can return to the flow: the pages
\* "", "Loading...", "ARR", "Carry on",
\* "Health Score", "CUSTOMER", "Portfolio", "revenue", "Err";
\* a flow that does not get to the call reads nothing.
DashboardPages(read) ==
    IF read
    THEN {<<>>,
          <<"L", "o", "a", "d", "i", "n", "g", ".", ".", ".">>,
          <<"A", "R", "R">>,
          <<"C", "a", "r", "r", "y", " ", "o", "n">>,
          <<"H", "e", "a", "l", "t", "h", " ", "S", "c", "o", "r", "e">>,
          <<"C", "U", "S", "T", "O", "M", "E", "R">>,
          <<"P", "o", "r", "t", "f", "o", "l", "i", "o">>,
          <<"r", "e", "v", "e", "n", "u", "e">>,
          <<"E", "r", "r">>}
    ELSE {<<>>}

dashboard_steps ==
    <<"wait_for_load_state", "wait_for_timeout", "screenshot:02_dashboard",
      "content">>

\* The flow with the outcome tied to the click of the nav control.
flow_dashboard_loads_clicked(res, click, html, f) ==
    LET content == lower(html)
        has_customer_signals ==
            safe_click(click) /\ \E kw \in DashboardWords : in_str(kw, content)
    IN  try_flow(res, "dashboard_loads", has_customer_signals,
                 IF has_customer_signals
                 THEN "Customer data indicators found on dashboard"
                 ELSE "No customer data indicators found",
                 f, [H0("dashboard_loads") EXCEPT !.ctl = click,
                                                  !.kw = has_customer_signals,
                                                  !.html = html])

flow_dashboard_loads(res, click, html, f) ==
    \* the value safe_click(click) returns is not used by this flow
    LET content == lower(html)
        has_customer_signals == \E kw \in DashboardWords : in_str(kw, content)
    IN  try_flow(res, "dashboard_loads", has_customer_signals,
                 IF has_customer_signals
                 THEN "Customer data indicators found on dashboard"
                 ELSE "No customer data indicators found",
                 f, [H0("dashboard_loads") EXCEPT !.ctl = click,
                                                  !.kw = has_customer_signals,
                                                  !.html = html])

-----------------------------------------------------------------------------
(* Flow 3: customer detail *)

CustomerDetailWords == {"customer", "360", "detail", "workspace"}

customer_detail_steps(rowVisible, linkVisible) ==
    <<"wait_for_load_state", "wait_for_timeout", "is_visible:customer_row">>
    \o (IF rowVisible
        THEN <<"click", "wait_for_load_state", "wait_for_timeout",
               "screenshot:03_customer_detail", "content">>
        ELSE <<"is_visible:link">>
             \o (IF linkVisible
                 THEN <<"click", "wait_for_load_state", "wait_for_timeout",
                        "screenshot:03_customer_detail">>
                 ELSE <<"screenshot:03_no_customer_rows">>))

\* The value of the leading safe_click is not used by this flow.
flow_customer_detail(res, rowVisible, linkVisible, content, f) ==
    try_flow(res, "customer_detail", rowVisible \/ linkVisible,
             IF rowVisible
             THEN IF any_in(CustomerDetailWords, content)
                  THEN "Customer detail view loaded"
                  ELSE "Clicked customer row, view changed"
             ELSE IF linkVisible
                  THEN "Opened customer via link/button"
                  ELSE "No customer rows or links found",
             f, H0("customer_detail"))

-----------------------------------------------------------------------------
(* Flow 4: operations hub *)

sub_tabs == <<"Automations", "Playbooks", "Support", "Email", "VoC">>

NumSubTabs == 5

\* What one pass of the sub-tab loop's try block does:
\*   "not_visible"        is_visible returned False
\*   "clicked"            click, wait_for_timeout and screenshot returned
\*   "error"              is_visible or click raised
\*   "error_after_click"  click returned, wait_for_timeout or screenshot raised
TabOutcomes == {"not_visible", "clicked", "error", "error_after_click"}

\* visit_tabs with the except clause leaving the loop: the first error ends
\* the passes.
RECURSIVE visit_tabs_break(_, _, _)
visit_tabs_break(i, outs, acc) ==
    IF i > Len(sub_tabs)
    THEN acc
    ELSE LET a == [attempted |-> Append(acc.attempted, sub_tabs[i]),
                   clicked |-> acc.clicked
                       + (IF outs[i] \in {"clicked", "error_after_click"}
                          THEN 1 ELSE 0),
                   found |-> acc.found + (IF outs[i] = "clicked" THEN 1 ELSE 0)]
         IN  IF outs[i] \in {"error", "error_after_click"}
             THEN a
             ELSE visit_tabs_break(i + 1, outs, a)

\* for label, slug in sub_tabs: try: ... tabs_found += 1 ... except: print
\* acc.attempted: the labels whose locator was tried; acc.clicked: the clicks
\* that returned; acc.found: tabs_found.
RECURSIVE visit_tabs(_, _, _)
visit_tabs(i, outs, acc) ==
    IF i > Len(sub_tabs)
    THEN acc
    ELSE visit_tabs(i + 1, outs,
            [attempted |-> Append(acc.attempted, sub_tabs[i]),
             clicked |-> acc.clicked
                 + (IF outs[i] \in {"clicked", "error_after_click"} THEN 1 ELSE 0),
             found |-> acc.found + (IF outs[i] = "clicked" THEN 1 ELSE 0)])

\* What the passes of the loop do, one outcome per sub-tab; a flow that does
\* not get to the loop makes no pass.
TabRuns(reached) ==
    IF reached
    THEN [1..Len(sub_tabs) -> TabOutcomes]
    ELSE {[i \in 1..Len(sub_tabs) |-> "not_visible"]}

operations_hub_steps(click) ==
    IF safe_click(click)
    THEN <<"wait_for_load_state", "wait_for_timeout",
           "screenshot:04_operations_hub">>
    ELSE <<"screenshot:04_ops_not_found">>

flow_operations_hub(res, click, outs, f) ==
    LET ops_clicked == safe_click(click)
        t == visit_tabs(1, outs, [attempted |-> <<>>, clicked |-> 0, found |-> 0])
        tabs_found == t.found
    IN  IF ~ops_clicked
        THEN try_flow(res, "operations_hub", FALSE,
                      "Operations button not found in nav", f,
                      [H0("operations_hub") EXCEPT !.ctl = click])
        ELSE try_flow(res, "operations_hub", tabs_found > 0,
                      IF tabs_found = NumSubTabs
                      THEN "All 5 sub-tabs accessible"
                      ELSE IF tabs_found > 0
                           THEN ToString(tabs_found)
                                \o "/5 sub-tabs accessible (partial)"
                           ELSE "No sub-tabs found",
                      f,
                      [H0("operations_hub") EXCEPT !.ctl = click,
                           !.attempted = t.attempted,
                           !.tabsClicked = t.clicked,
                           !.tabsFound = tabs_found])

-----------------------------------------------------------------------------
(* Flow 5: admin panel *)

AdminWords == {"admin", "settings", "organization", "users", "config"}

\* flow_admin_panel treating a control that was not clicked as a failure, the
\* way flow_agent_center does.
flow_admin_panel_strict(res, click, content, f) ==
    LET admin_clicked == safe_click(click)
        kw == admin_clicked /\ any_in(AdminWords, content)
    IN  try_flow(res, "admin_panel", admin_clicked,
                 IF ~admin_clicked
                 THEN "Admin button not visible (expected for non-admin/demo users)"
                 ELSE IF kw
                      THEN "Admin panel loaded with settings content"
                      ELSE "Admin panel navigated (content may be minimal in demo)",
                 f, [H0("admin_panel") EXCEPT !.ctl = click, !.kw = kw])

admin_panel_steps(click) ==
    IF safe_click(click)
    THEN <<"wait_for_load_state", "wait_for_timeout",
           "screenshot:05_admin_panel", "content">>
    ELSE <<"screenshot:05_admin_not_visible">>

flow_admin_panel(res, click, content, f) ==
    LET admin_clicked == safe_click(click)
        kw == admin_clicked /\ any_in(AdminWords, content)
    IN  try_flow(res, "admin_panel", TRUE,
                 IF ~admin_clicked
                 THEN "Admin button not visible (expected for non-admin/demo users)"
                 ELSE IF kw
                      THEN "Admin panel loaded with settings content"
                      ELSE "Admin panel navigated (content may be minimal in demo)",
                 f, [H0("admin_panel") EXCEPT !.ctl = click, !.kw = kw])

-----------------------------------------------------------------------------
(* Flow 6: agent center *)

AgentWords == {"message", "agent", "chat", "send", "conversation"}

\* flow_agent_center failing when no keyword is on the page.
flow_agent_center_strict(res, click, content, f) ==
    LET agent_clicked == safe_click(click)
        has_chat == agent_clicked /\ any_in(AgentWords, content)
    IN  try_flow(res, "agent_center", has_chat,
                 IF ~agent_clicked
                 THEN "Agent Center button not found"
                 ELSE IF has_chat
                      THEN "Agent Center loaded with chat interface"
                      ELSE "Agent Center navigated (chat content may be loading)",
                 f, [H0("agent_center") EXCEPT !.ctl = click, !.kw = has_chat])

agent_center_steps(click) ==
    IF safe_click(click)
    THEN <<"wait_for_load_state", "wait_for_timeout",
           "screenshot:06_agent_center", "content">>
    ELSE <<"screenshot:06_agent_center_not_found">>

flow_agent_center(res, click, content, f) ==
    LET agent_clicked == safe_click(click)
        has_chat == agent_clicked /\ any_in(AgentWords, content)
    IN  try_flow(res, "agent_center", agent_clicked,
                 IF ~agent_clicked
                 THEN "Agent Center button not found"
                 ELSE IF has_chat
                      THEN "Agent Center loaded with chat interface"
                      ELSE "Agent Center navigated (chat content may be loading)",
                 f, [H0("agent_center") EXCEPT !.ctl = click, !.kw = has_chat])

-----------------------------------------------------------------------------
(* Flow 7: knowledge base *)

KnowledgeWords == {"knowledge", "document", "upload", "search", "base", "file"}

knowledge_base_steps(click) ==
    IF safe_click(click)
    THEN <<"wait_for_load_state", "wait_for_timeout",
           "screenshot:07_knowledge_base", "content">>
    ELSE <<"screenshot:07_kb_not_found">>

flow_knowledge_base(res, click, content, f) ==
    LET kb_clicked == safe_click(click)
        has_kb == kb_clicked /\ any_in(KnowledgeWords, content)
    IN  try_flow(res, "knowledge_base", kb_clicked,
                 IF ~kb_clicked
                 THEN "Knowledge Base button not found"
                 ELSE IF has_kb
                      THEN "Knowledge Base loaded"
                      ELSE "Knowledge Base navigated (may be empty)",
                 f, [H0("knowledge_base") EXCEPT !.ctl = click, !.kw = has_kb])

-----------------------------------------------------------------------------
(* Flow 8: chat send *)

\* visible: what the second chat_input.is_visible() returns, for the input
\* finally chosen (the placeholder locator, or "textarea:visible" when the
\* first is_visible() returned False). Whether safe_click clicked, and which
\* of send_btn.click() and chat_input.press() is called, changes neither the
\* number of calls nor what is recorded.
chat_send_steps(visible) ==
    <<"wait_for_load_state", "wait_for_timeout", "is_visible:chat_input",
      "is_visible:chat_input">>
    \o (IF visible
        THEN <<"fill", "screenshot:08_chat_message_typed", "is_visible:send_btn",
               "click or press", "wait_for_timeout",
               "screenshot:08_chat_message_sent">>
        ELSE <<"screenshot:08_chat_input_not_found">>)

flow_chat_send(res, visible, f) ==
    try_flow(res, "chat_send", visible,
             IF visible
             THEN "Message typed and send attempted"
             ELSE "Chat input not found in Agent Center",
             f, H0("chat_send"))

-----------------------------------------------------------------------------
(* run_verification *)

\* tally without the else branch: failures are not counted.
RECURSIVE tally_passed_only(_, _, _)
tally_passed_only(res, i, acc) ==
    IF i > Len(res)
    THEN acc
    ELSE tally_passed_only(res, i + 1,
               IF res[i].passed
               THEN [acc EXCEPT !.passed = @ + 1]
               ELSE acc)

\* for name, info in results.items(): passed += 1 / failed += 1
RECURSIVE tally(_, _, _)
tally(res, i, acc) ==
    IF i > Len(res)
    THEN acc
    ELSE tally(res, i + 1,
               IF res[i].passed
               THEN [acc EXCEPT !.passed = @ + 1]
               ELSE [acc EXCEPT !.failed = @ + 1])

\* The number of console errors the summary keeps: console_errors[:20].
ConsoleCap == 20

\* errs[:n]
first_n(errs, n) == SubSeq(errs, 1, IF Len(errs) < n THEN Len(errs) ELSE n)

\* "console_errors": console_errors[:20]
summary_errors(errs, n) == first_n(errs, n)

\* The document json.dump writes (the fields the run decides).
make_summary(res, errs) ==
    LET t == tally(res, 1, [passed |-> 0, failed |-> 0])
        total == t.passed + t.failed
    IN  [written |-> TRUE, total |-> total, passed |-> t.passed,
         failed |-> t.failed, results |-> res,
         console_errors |-> summary_errors(errs, ConsoleCap)]

\* The console handler appending every message, whatever its type.
on_console_any(errs, msg) == Append(errs, msg.text)

\* lambda msg: console_errors.append(msg.text) if msg.type == "error" else None
on_console(errs, msg) ==
    IF msg.type = "error" THEN Append(errs, msg.text) ELSE errs

\* return 0 if failed == 0 else 1
exit_status(failed) == IF failed = 0 THEN 0 ELSE 1

-----------------------------------------------------------------------------
(* e2e-test.py: the five tests *)

\* What a test does when called: it returns ret, or the exception esc leaves
\* it.
test_result(ret, o) ==
    IF o = NoExc THEN [ret |-> ret, esc |-> NoExc] ELSE [ret |-> FALSE, esc |-> o]

\* test_login_flow: every path that does not raise ends in "return True".
test_login_flow(o) == test_result(TRUE, o)

CustomerListWords == {"customer", "client", "dashboard"}

\* test_customer_list: True when the lower-cased content holds a keyword.
test_customer_list(content, o) ==
    test_result(any_in(CustomerListWords, content), o)

\* test_agent_center: True when a chat input was located.
test_agent_center(chat_input, o) == test_result(chat_input, o)

\* test_keyboard_shortcuts: True when a chat input was located.
test_keyboard_shortcuts(chat_input, o) == test_result(chat_input, o)

\* test_code_block_copy: True when there is a code block and, after the hover,
\* a copy button.
test_code_block_copy(code_blocks, copy_btn, o) ==
    test_result(code_blocks /\ copy_btn, o)

\* run_tests has not returned.
NotReturned == -1

\* run_tests before its first statement: results = {}.
E2E0 ==
    [pc |-> "launch", results |-> <<>>, exc |-> NoExc, browser |-> "none",
     closes |-> 0, errorShots |-> 0, raised |-> NoFlow, ret |-> NotReturned]

\* return 0 if passed == total else 1, over the entries results holds.
run_tests_status(res) ==
    LET passed == Len(SelectSeq(res, LAMBDA r : r.passed))
        total == Len(res)
    IN  IF passed = total THEN 0 ELSE 1

\* Exit status of the interpreter when an exception leaves run_verification.
UncaughtExit == 1

Init ==
    /\ pc = "health_check"
    /\ results = <<>>
    /\ exc = NoExc
    /\ browser = "none"
    /\ page = FALSE
    /\ closes = 0
    /\ fatalShots = 0
    /\ invoked = <<>>
    /\ last = H0(NoFlow)
    /\ summary = NoSummary
    /\ writes = 0
    /\ exitCode = NotExited
    /\ console_errors = <<>>
    /\ emitted = <<>>
    /\ run = 1
    /\ fresh = {}
    /\ e2e = E2E0

\* An exception leaves run_verification: the interpreter prints the traceback
\* and exits; nothing after the raising statement runs.
Propagate(msg) ==
    /\ exc' = msg
    /\ pc' = "done"
    /\ exitCode' = UncaughtExit

\* Preflight: urlopen(BACKEND_URL/api/health); any exception only prints.
HealthCheck ==
    /\ pc = "health_check"
    /\ \E o \in {"ok", "timeout", "refused"} :
          last' = [H0("health_check") EXCEPT !.ctl = o]
    /\ pc' = "launch"
    /\ UNCHANGED <<console_errors, emitted, run, fresh, e2e>>
    /\ UNCHANGED <<results, exc, browser, page, closes, fatalShots, invoked,
                   summary, writes, exitCode>>

\* Launch with the launch inside the try block: its exception goes to the
\* except clause of run_verification.
Launch_in_try ==
    /\ pc = "launch"
    /\ \E o \in CallOutcomes :
          IF o = NoExc
          THEN /\ browser' = "open"
               /\ pc' = "new_context"
               /\ UNCHANGED <<exc, exitCode>>
          ELSE /\ exc' = o
               /\ pc' = "fatal"
               /\ UNCHANGED <<browser, exitCode>>
    /\ last' = H0("launch")
    /\ UNCHANGED <<console_errors, emitted, run, fresh, e2e>>
    /\ UNCHANGED <<results, page, closes, fatalShots, invoked, summary, writes>>

\* browser = pw.chromium.launch(headless=True)
Launch ==
    /\ pc = "launch"
    /\ \E o \in CallOutcomes :
          IF o = NoExc
          THEN /\ browser' = "open"
               /\ pc' = "new_context"
               /\ UNCHANGED <<exc, exitCode>>
          ELSE /\ Propagate(o)
               /\ UNCHANGED browser
    /\ last' = H0("launch")
    /\ UNCHANGED <<console_errors, emitted, run, fresh, e2e>>
    /\ UNCHANGED <<results, page, closes, fatalShots, invoked, summary, writes>>

\* context = browser.new_context(...); context.set_default_timeout(...)
NewContext ==
    /\ pc = "new_context"
    /\ \E o \in CallOutcomes :
          IF o = NoExc
          THEN /\ pc' = "new_page"
               /\ UNCHANGED <<exc, exitCode>>
          ELSE Propagate(o)
    /\ last' = H0("new_context")
    /\ UNCHANGED <<console_errors, emitted, run, fresh, e2e>>
    /\ UNCHANGED <<results, browser, page, closes, fatalShots, invoked,
                   summary, writes>>

\* page = context.new_page(); page.on("console", ...)
NewPage ==
    /\ pc = "new_page"
    /\ \E o \in CallOutcomes :
          IF o = NoExc
          THEN /\ page' = TRUE
               /\ pc' = "flow_demo_login"
               /\ UNCHANGED <<exc, exitCode>>
          ELSE /\ Propagate(o)
               /\ UNCHANGED page
    /\ last' = H0("new_page")
    /\ UNCHANGED <<console_errors, emitted, run, fresh, e2e>>
    /\ UNCHANGED <<results, browser, closes, fatalShots, invoked, summary,
                   writes>>

\* One call flow_xxx(page) inside the try block of run_verification: o is
\* what the flow did; an exception that leaves it goes to the except clause
\* and the calls after it are skipped.
CallFlow(name, o, next) ==
    /\ results' = o.results
    /\ exc' = o.esc
    /\ last' = o.hist
    /\ invoked' = Append(invoked, name)
    /\ pc' = IF o.esc = NoExc THEN next ELSE "fatal"
    \* a flow that returns has called record: every path of its try statement
    \* that does not raise ends in record
    /\ fresh' = IF o.esc = NoExc THEN fresh \cup {name} ELSE fresh
    /\ UNCHANGED <<console_errors, emitted, run, e2e>>
    /\ UNCHANGED <<browser, page, closes, fatalShots, summary, writes, exitCode>>

FlowDemoLogin ==
    /\ pc = "flow_demo_login"
    /\ \E content \in SUBSET DemoLoginWords :
       \E f \in Faults(demo_login_steps(content)) :
          CallFlow("demo_login", flow_demo_login(results, content, f),
                   "flow_dashboard_loads")

FlowDashboardLoads ==
    /\ pc = "flow_dashboard_loads"
    /\ \E click \in ClickOutcomes :
       \E f \in Faults(dashboard_steps) :
       \E html \in DashboardPages(f.failAt = 0) :
          CallFlow("dashboard_loads",
                   flow_dashboard_loads(results, click, html, f),
                   "flow_customer_detail")

FlowCustomerDetail ==
    /\ pc = "flow_customer_detail"
    /\ \E rowVisible \in BOOLEAN, linkVisible \in BOOLEAN :
       \E f \in Faults(customer_detail_steps(rowVisible, linkVisible)) :
       \E content \in Content(CustomerDetailWords, rowVisible /\ f.failAt = 0) :
          CallFlow("customer_detail",
                   flow_customer_detail(results, rowVisible, linkVisible,
                                        content, f),
                   "flow_operations_hub")

FlowOperationsHub ==
    /\ pc = "flow_operations_hub"
    /\ \E click \in ClickOutcomes :
       \E f \in Faults(operations_hub_steps(click)) :
       \E outs \in TabRuns(safe_click(click) /\ f.failAt = 0) :
          CallFlow("operations_hub", flow_operations_hub(results, click, outs, f),
                   "flow_admin_panel")

FlowAdminPanel ==
    /\ pc = "flow_admin_panel"
    /\ \E click \in ClickOutcomes :
       \E f \in Faults(admin_panel_steps(click)) :
       \E content \in Content(AdminWords, safe_click(click) /\ f.failAt = 0) :
          CallFlow("admin_panel", flow_admin_panel(results, click, content, f),
                   "flow_agent_center")

FlowAgentCenter ==
    /\ pc = "flow_agent_center"
    /\ \E click \in ClickOutcomes :
       \E f \in Faults(agent_center_steps(click)) :
       \E content \in Content(AgentWords, safe_click(click) /\ f.failAt = 0) :
          CallFlow("agent_center", flow_agent_center(results, click, content, f),
                   "flow_knowledge_base")

FlowKnowledgeBase ==
    /\ pc = "flow_knowledge_base"
    /\ \E click \in ClickOutcomes :
       \E f \in Faults(knowledge_base_steps(click)) :
       \E content \in Content(KnowledgeWords, safe_click(click) /\ f.failAt = 0) :
          CallFlow("knowledge_base",
                   flow_knowledge_base(results, click, content, f),
                   "flow_chat_send")

FlowChatSend ==
    /\ pc = "flow_chat_send"
    /\ \E visible \in BOOLEAN :
       \E f \in Faults(chat_send_steps(visible)) :
          CallFlow("chat_send", flow_chat_send(results, visible, f), "finally")

\* except Exception as exc: print(FATAL ERROR); screenshot(page, "fatal_error")
\* The caught exception is done with when the screenshot returns; when the
\* screenshot raises, its exception leaves the except clause.
Fatal ==
    /\ pc = "fatal"
    /\ fatalShots' = fatalShots + 1
    /\ \E o \in CallOutcomes : exc' = o
    /\ pc' = "finally"
    /\ last' = H0("fatal")
    /\ UNCHANGED <<console_errors, emitted, run, fresh, e2e>>
    /\ UNCHANGED <<results, browser, page, closes, invoked, summary, writes,
                   exitCode>>

\* Finally with browser.close() after the try statement instead of in its
\* finally clause: a pending exception skips it.
Finally_after_try ==
    /\ pc = "finally"
    /\ IF exc = NoExc
       THEN /\ closes' = closes + 1
            /\ browser' = "closed"
            /\ pc' = "summary"
            /\ UNCHANGED <<exc, exitCode>>
       ELSE /\ Propagate(exc)
            /\ UNCHANGED <<closes, browser>>
    /\ last' = H0("finally")
    /\ UNCHANGED <<console_errors, emitted, run, fresh, e2e>>
    /\ UNCHANGED <<results, page, fatalShots, invoked, summary, writes>>

\* finally: browser.close(); then the pending exception, if any, goes on.
Finally ==
    /\ pc = "finally"
    /\ closes' = closes + 1
    /\ browser' = "closed"
    /\ IF exc = NoExc
       THEN /\ pc' = "summary"
            /\ UNCHANGED <<exc, exitCode>>
       ELSE Propagate(exc)
    /\ last' = H0("finally")
    /\ UNCHANGED <<console_errors, emitted, run, fresh, e2e>>
    /\ UNCHANGED <<results, page, fatalShots, invoked, summary, writes>>

\* The tally, json.dump to summary.json and the return statement.
Summary ==
    /\ pc = "summary"
    /\ summary' = make_summary(results, console_errors)
    /\ writes' = writes + 1
    /\ exitCode' = exit_status(summary'.failed)
    /\ pc' = "done"
    /\ last' = H0("summary")
    /\ UNCHANGED <<console_errors, emitted, run, fresh, e2e>>
    /\ UNCHANGED <<results, exc, browser, page, closes, fatalShots, invoked>>

\* Bounds of the console traffic of one session: the messages the page emits,
\* and those among them that are not errors.
MaxConsole == 22

MaxOther == 1

ConsoleTypes == {"error", "warning"}

Others(msgs) == Len(SelectSeq(msgs, LAMBDA m : m.type # "error"))

\* The page emits a console message while the session is open: the handler
\* registered by page.on("console", ...) runs. A message's text is its
\* position in the session's console output.
ConsoleMessage ==
    /\ page
    /\ browser = "open"
    /\ pc # "done"
    /\ Len(emitted) < MaxConsole
    /\ \E type \in ConsoleTypes :
          LET msg == [type |-> type, text |-> Len(emitted) + 1]
          IN  /\ type # "error" => Others(emitted) < MaxOther
              /\ emitted' = Append(emitted, msg)
              /\ console_errors' = on_console(console_errors, msg)
    /\ UNCHANGED <<pc, results, exc, page, browser, closes, fatalShots, invoked,
                   last, summary, writes, exitCode, run, fresh, e2e>>

Next ==
    \/ HealthCheck
    \/ Launch
    \/ NewContext
    \/ NewPage
    \/ FlowDemoLogin
    \/ FlowDashboardLoads
    \/ FlowCustomerDetail
    \/ FlowOperationsHub
    \/ FlowAdminPanel
    \/ FlowAgentCenter
    \/ FlowKnowledgeBase
    \/ FlowChatSend
    \/ Fatal
    \/ Finally
    \/ Summary

Spec == Init /\ [][Next]_vars

-----------------------------------------------------------------------------
(* Environments *)

Flows ==
    \/ FlowDemoLogin
    \/ FlowDashboardLoads
    \/ FlowCustomerDetail
    \/ FlowOperationsHub
    \/ FlowAdminPanel
    \/ FlowAgentCenter
    \/ FlowKnowledgeBase
    \/ FlowChatSend

\* The detail a flow records when every control and every keyword it looks
\* for is on the page.
HappyDetail(name) ==
    CASE name = "demo_login" -> ""
      [] name = "dashboard_loads" -> "Customer data indicators found on dashboard"
      [] name = "customer_detail" -> "Customer detail view loaded"
      [] name = "operations_hub" -> "All 5 sub-tabs accessible"
      [] name = "admin_panel" -> "Admin panel loaded with settings content"
      [] name = "agent_center" -> "Agent Center loaded with chat interface"
      [] name = "knowledge_base" -> "Knowledge Base loaded"
      [] name = "chat_send" -> "Message typed and send attempted"

\* The last flow ran against a complete application: every control was
\* there to click and every keyword on the page. Its calls may still raise.
Complete ==
    /\ last.ctl \in {"n/a", "clicked"}
    /\ last.raised = NoExc =>
          Get(results, last.flow)
              = [name |-> last.flow, passed |-> TRUE, detail |-> HappyDetail(last.flow)]

\* The last flow ran against a complete application and none of its calls
\* raised.
Quiet == Complete /\ last.raised = NoExc

\* One session against a complete application on which no call of a flow
\* raises, with the console messages the page emits.
NextConsole ==
    \/ HealthCheck
    \/ Launch
    \/ NewContext
    \/ NewPage
    \/ Flows /\ Quiet'
    \/ ConsoleMessage
    \/ Finally
    \/ Summary

SpecConsole == Init /\ [][NextConsole]_vars

\* Invocations of run_verification made in one process.
MaxRuns == 2

\* run_verification has returned and is called again in the same process:
\* its locals start afresh, the module-level results and the file
\* summary.json stay as the earlier invocation left them.
Reinvoke ==
    /\ pc = "done"
    /\ exc = NoExc
    /\ run < MaxRuns
    /\ run' = run + 1
    /\ pc' = "health_check"
    /\ browser' = "none"
    /\ page' = FALSE
    /\ closes' = 0
    /\ fatalShots' = 0
    /\ invoked' = <<>>
    /\ writes' = 0
    /\ exitCode' = NotExited
    /\ console_errors' = <<>>
    /\ emitted' = <<>>
    /\ fresh' = {}
    /\ last' = H0(NoFlow)
    /\ UNCHANGED <<results, exc, summary, e2e>>

\* Invocations in sequence against a complete application: no call of a
\* flow raises during the first, calls may raise during the later ones.
NextTwice ==
    \/ HealthCheck
    \/ Launch
    \/ NewContext
    \/ NewPage
    \/ Flows /\ Complete' /\ (run = 1 => Quiet')
    \/ Fatal
    \/ Finally
    \/ Summary
    \/ Reinvoke

SpecTwice == Init /\ [][NextTwice]_vars

-----------------------------------------------------------------------------
(* e2e-test.py: run_tests *)

TestNames == <<"login", "customer_list", "agent_center", "keyboard", "code_copy">>

\* The verification run's own variables, which run_tests leaves alone.
verify_vars ==
    <<pc, results, exc, browser, page, closes, fatalShots, invoked, last,
      summary, writes, exitCode, console_errors, emitted, run, fresh>>

\* A call before the try statement (launch, new_context, new_page): its
\* exception leaves run_tests, which does not return.
E2ESetup(next) ==
    /\ \E o \in CallOutcomes :
          e2e' = IF o = NoExc
                 THEN [e2e EXCEPT !.pc = next,
                                  !.browser = "open"]
                 ELSE [e2e EXCEPT !.pc = "done", !.exc = o]
    /\ UNCHANGED verify_vars

\* browser = p.chromium.launch(headless=True)
E2ELaunch ==
    /\ e2e.pc = "launch"
    /\ E2ESetup("new_context")

\* context = browser.new_context(...)
E2ENewContext ==
    /\ e2e.pc = "new_context"
    /\ E2ESetup("new_page")

\* page = context.new_page()
E2ENewPage ==
    /\ e2e.pc = "new_page"
    /\ E2ESetup("login")

\* results[name] = test_xxx(page) inside the try block: the assignment
\* happens when the test returns; an exception goes to the except clause and
\* the statements after it are skipped.
CallTest(name, o, next) ==
    /\ e2e' = IF o.esc = NoExc
              THEN [e2e EXCEPT !.results = Append(@, [name |-> name,
                                                      passed |-> o.ret]),
                               !.pc = next]
              ELSE [e2e EXCEPT !.exc = o.esc, !.raised = name,
                               !.pc = "except"]
    /\ UNCHANGED verify_vars

TestLogin ==
    /\ e2e.pc = "login"
    /\ \E o \in CallOutcomes :
           CallTest("login", test_login_flow(o), "customer_list")

TestCustomerList ==
    /\ e2e.pc = "customer_list"
    /\ \E content \in SUBSET CustomerListWords, o \in CallOutcomes :
           CallTest("customer_list", test_customer_list(content, o),
                    "agent_center")

TestAgentCenter ==
    /\ e2e.pc = "agent_center"
    /\ \E chat_input \in BOOLEAN, o \in CallOutcomes :
           CallTest("agent_center", test_agent_center(chat_input, o), "keyboard")

TestKeyboard ==
    /\ e2e.pc = "keyboard"
    /\ \E chat_input \in BOOLEAN, o \in CallOutcomes :
           CallTest("keyboard", test_keyboard_shortcuts(chat_input, o),
                    "code_copy")

TestCodeCopy ==
    /\ e2e.pc = "code_copy"
    /\ \E code_blocks \in BOOLEAN, copy_btn \in BOOLEAN, o \in CallOutcomes :
           CallTest("code_copy", test_code_block_copy(code_blocks, copy_btn, o),
                    "finally")

\* except Exception as e: print(...); page.screenshot(path=".../error_state.png")
\* The exception of the test is handled; one raised by the screenshot goes on.
E2EExcept ==
    /\ e2e.pc = "except"
    /\ \E o \in CallOutcomes :
          e2e' = [e2e EXCEPT !.exc = o, !.errorShots = @ + 1, !.pc = "finally"]
    /\ UNCHANGED verify_vars

\* finally: browser.close(); then the pending exception, if any, leaves
\* run_tests.
E2EFinally ==
    /\ e2e.pc = "finally"
    /\ e2e' = [e2e EXCEPT !.closes = @ + 1, !.browser = "closed",
                          !.pc = IF e2e.exc = NoExc THEN "summary" ELSE "done"]
    /\ UNCHANGED verify_vars

\* The summary and the return statement.
E2EReturn ==
    /\ e2e.pc = "summary"
    /\ e2e' = [e2e EXCEPT !.ret = run_tests_status(e2e.results),
                          !.pc = "done"]
    /\ UNCHANGED verify_vars

NextE2E ==
    \/ E2ELaunch
    \/ E2ENewContext
    \/ E2ENewPage
    \/ TestLogin
    \/ TestCustomerList
    \/ TestAgentCenter
    \/ TestKeyboard
    \/ TestCodeCopy
    \/ E2EExcept
    \/ E2EFinally
    \/ E2EReturn

SpecE2E == Init /\ [][NextE2E]_vars

-----------------------------------------------------------------------------
(* Properties *)

Recorded(name) == name \in Names(results)

Ended == pc = "done"

\* C1: every run in which the browser session was launched ends with exactly
\* one entry in results for each of the 8 flows, whichever call raises
\* inside a flow, the screenshot of a flow's except handler included.
C1_OneResultPerFlow ==
    (Ended /\ page) =>
        \A i \in 1..Len(FlowNames) :
            Cardinality({j \in 1..Len(results) : results[j].name = FlowNames[i]}) = 1

\* C2: flow isolation. When a call of flow i raises to the flow's try block,
\* flow i records passed = False with the exception's message as detail and
\* the run goes on to the next flow; a run whose session was launched has
\* invoked all 8 flows, in order, when it ends.
C2_FlowIsolation ==
    /\ \A i \in 1..Len(FlowNames) :
          (last.flow = FlowNames[i] /\ last.raised # NoExc) =>
              /\ Recorded(FlowNames[i])
              /\ ~Get(results, FlowNames[i]).passed
              /\ Get(results, FlowNames[i]).detail = last.raised
              /\ pc # "fatal"
    /\ (Ended /\ page) => invoked = FlowNames

\* C3: the exit status is 0 only if all 8 flows recorded passed = True, and
\* is 1 whenever some flow recorded passed = False.
C3_ExitCode ==
    Ended =>
        /\ exitCode = 0 =>
              \A i \in 1..Len(FlowNames) :
                  Recorded(FlowNames[i]) /\ Get(results, FlowNames[i]).passed
        /\ (\E j \in 1..Len(results) : ~results[j].passed) => exitCode = 1

\* C4: in every summary written, total = passed + failed, results has total
\* entries, passed is the number of entries with passed = True and failed
\* the number with passed = False.
C4_SummaryCounts ==
    summary.written =>
        /\ summary.total = summary.passed + summary.failed
        /\ Len(summary.results) = summary.total
        /\ summary.passed
             = Cardinality({j \in 1..Len(summary.results) : summary.results[j].passed})
        /\ summary.failed
             = Cardinality({j \in 1..Len(summary.results) : ~summary.results[j].passed})

C4_Witness ==
    /\ summary.written
    /\ summary.passed > 0
    /\ summary.failed > 0

\* C5 as stated: when launch, new_context or new_page raises, no flow is
\* invoked, one diagnostic screenshot is attempted and the exit status is 1.
C5_Original ==
    (Ended /\ ~page) =>
        /\ invoked = <<>>
        /\ fatalShots = 1
        /\ exitCode = 1

\* C5 amended: when launch, new_context or new_page raises, the exception
\* leaves run_verification: no flow is invoked, no screenshot is attempted,
\* browser.close() is not called, no summary is written, and the exit status
\* is 1.
C5_LaunchFailure ==
    (Ended /\ ~page) =>
        /\ invoked = <<>>
        /\ results = <<>>
        /\ fatalShots = 0
        /\ closes = 0
        /\ writes = 0
        /\ exc # NoExc
        /\ exitCode = 1

C5_Witness ==
    /\ Ended
    /\ ~page
    /\ browser = "open"
    /\ exitCode = 1

\* C6 as stated: once the browser has been launched, browser.close() is
\* executed exactly once before the run ends, in every execution.
C6_Original ==
    /\ closes <= 1
    /\ (Ended /\ browser # "none") => closes = 1

\* C6 amended: once the page has been created (launch, new_context and
\* new_page returned), browser.close() is executed exactly once before the
\* run ends, whether the flows succeed, record failures, let an exception
\* out, or the fatal-error screenshot raises; it is never executed twice.
C6_CloseOnce ==
    /\ closes <= 1
    /\ (pc \in {"summary", "done"} /\ page) => (closes = 1 /\ browser = "closed")

C6_Witness ==
    /\ Ended
    /\ page
    /\ fatalShots = 1
    /\ exc # NoExc
    /\ closes = 1

\* C7: every run in which the browser session was launched writes
\* summary.json exactly once, as its last step, after the browser is closed.
C7_SummaryOnce ==
    /\ writes <= 1
    /\ writes = 1 => (closes = 1 /\ Ended)
    /\ (Ended /\ page) => writes = 1

AdminNotVisible == "Admin button not visible (expected for non-admin/demo users)"

\* C8 as stated: admin_panel is recorded passed = True when the control is
\* absent, with the "not visible" detail, and is recorded passed = False only
\* after the control was clicked and a later call raised.
C8_Original ==
    (last.flow = "admin_panel" /\ Recorded("admin_panel")) =>
        LET e == Get(results, "admin_panel")
        IN  /\ last.ctl = "not_visible" =>
                  (e.passed /\ e.detail = AdminNotVisible)
            /\ ~e.passed => (last.ctl = "clicked" /\ last.raised # NoExc)

\* C8 amended: flow_admin_panel records passed = True exactly when no call
\* after safe_click raises, with the "not visible" detail when the control
\* was not clicked; it records passed = False, with the exception's message,
\* exactly when such a call raises and the handler's screenshot returns,
\* which includes the screenshot taken when the control is absent; it records
\* nothing when the handler's screenshot raises.
C8_AdminPanel ==
    last.flow = "admin_panel" =>
        /\ Recorded("admin_panel") <=> ~last.hraised
        /\ Recorded("admin_panel") =>
              LET e == Get(results, "admin_panel")
              IN  /\ e.passed <=> last.raised = NoExc
                  /\ ~e.passed => e.detail = last.raised
                  /\ (e.passed /\ last.ctl # "clicked") => e.detail = AdminNotVisible

C8_Witness ==
    /\ last.flow = "admin_panel"
    /\ last.ctl = "not_visible"
    /\ Recorded("admin_panel")
    /\ ~Get(results, "admin_panel").passed

NavFlows == {"agent_center", "knowledge_base"}

C10_Original ==
    last.flow = "operations_hub" =>
        /\ Recorded("operations_hub")
        /\ last.ctl # "clicked" => ~Get(results, "operations_hub").passed
        /\ last.ctl = "clicked" =>
              /\ last.attempted = sub_tabs
              /\ Get(results, "operations_hub").passed <=> last.tabsClicked > 0

\* C10 amended: operations_hub is never recorded passed = True when the
\* control cannot be clicked, and no sub-tab is then attempted; when the
\* control is clicked and the wait and screenshot after it return, all 5
\* sub-tabs are attempted in order, whatever errors the earlier ones meet;
\* whenever the flow records, passed = True exactly when the control was
\* clicked, no call outside the loop raised, and tabs_found > 0, tabs_found
\* being the sub-tabs whose click, pause and screenshot all returned.
C10_OperationsHub ==
    last.flow = "operations_hub" =>
        /\ Recorded("operations_hub") <=> ~last.hraised
        /\ Recorded("operations_hub") =>
              (Get(results, "operations_hub").passed
                  <=> (last.ctl = "clicked" /\ last.raised = NoExc
                       /\ last.tabsFound > 0))
        /\ (last.ctl = "clicked" /\ last.raised = NoExc) =>
              last.attempted = sub_tabs
        /\ last.ctl # "clicked" => last.attempted = <<>>
        /\ last.tabsFound <= last.tabsClicked

C10_Witness ==
    /\ last.flow = "operations_hub"
    /\ last.ctl = "clicked"
    /\ last.attempted = sub_tabs
    /\ last.tabsClicked > 0
    /\ last.tabsFound = 0
    /\ Recorded("operations_hub")
    /\ ~Get(results, "operations_hub").passed

\* The texts of the error messages among msgs, in the order of emission.
ErrorTexts(msgs) ==
    LET errs == SelectSeq(msgs, LAMBDA m : m.type = "error")
    IN  [i \in 1..Len(errs) |-> errs[i].text]

\* The first 20 error messages emitted.
First20Errors ==
    LET texts == ErrorTexts(emitted)
    IN  [i \in 1..(IF Len(texts) < 20 THEN Len(texts) ELSE 20) |-> texts[i]]

\* C11 as stated: the list of console errors retained by run_verification
\* never exceeds 20 entries and equals the first 20 error messages emitted,
\* and so does the console_errors array of the summary.
C11_Original ==
    /\ Len(console_errors) <= 20
    /\ console_errors = First20Errors
    /\ summary.written => summary.console_errors = First20Errors

\* C11 amended: the list retained by run_verification holds every console
\* message of type "error" emitted during the session, and only those, in the
\* order of emission, without a cap; the console_errors array of the summary
\* holds the first 20 of them and so never exceeds 20 entries.
C11_ConsoleErrors ==
    /\ console_errors = ErrorTexts(emitted)
    /\ summary.written =>
          /\ summary.console_errors = First20Errors
          /\ Len(summary.console_errors) <= 20

C11_Witness ==
    /\ summary.written
    /\ Len(console_errors) > 20
    /\ Others(emitted) > 0
    /\ Len(summary.console_errors) = 20

\* C12: the summary of a second invocation of run_verification holds only
\* entries recorded during that invocation: its results, its totals and its
\* exit status count no entry left by the first.
C12_FreshSummary ==
    (run > 1 /\ writes = 1) =>
        /\ \A j \in 1..Len(summary.results) : summary.results[j].name \in fresh
        /\ summary.total = Cardinality(fresh)
        /\ exitCode = 0 <=>
              \A n \in fresh : Get(results, n).passed

\* The lower-cased page content holds one of the six keywords.
HasDashboardWord(html) == \E kw \in DashboardWords : in_str(kw, lower(html))

\* C13: when no call of flow_dashboard_loads raises, dashboard_loads is
\* recorded passed = True if and only if the lower-cased page content holds
\* one of customer, health, portfolio, arr, revenue, score, whatever became
\* of the click on the "Dashboard" control.
C13_DashboardLoads ==
    (last.flow = "dashboard_loads" /\ last.raised = NoExc) =>
        /\ Recorded("dashboard_loads")
        /\ \A click \in ClickOutcomes :
              last.ctl = click =>
                  (Get(results, "dashboard_loads").passed
                      <=> HasDashboardWord(last.html))

\* The control was absent and the page holds a keyword in upper case only.
C13_Witness ==
    /\ last.flow = "dashboard_loads"
    /\ last.raised = NoExc
    /\ last.ctl = "not_visible"
    /\ ~(\E kw \in DashboardWords : in_str(kw, last.html))
    /\ HasDashboardWord(last.html)
    /\ Get(results, "dashboard_loads").passed

\* The five tests ran and each returned True.
AllFivePassed ==
    /\ Len(e2e.results) = Len(TestNames)
    /\ \A i \in 1..Len(TestNames) :
          e2e.results[i] = [name |-> TestNames[i], passed |-> TRUE]

\* C14: run_tests returns 0 only if the five tests login, customer_list,
\* agent_center, keyboard and code_copy ran and each returned True; when a
\* test raised, run_tests returns 1.
C14_RunTests ==
    e2e.ret # NotReturned =>
        /\ e2e.ret = 0 => AllFivePassed
        /\ e2e.raised # NoFlow => e2e.ret = 1

====
